---- MODULE Spec2Model ----
(***************************************************************************)
(* The reconciliation cycle of the kubervise agent worker.                 *)
(*                                                                         *)
(* workers/agentkubervise/main.py      ClusterWatcher.sync_data,           *)
(*                                     ClusterWatcher.watch_events,        *)
(*                                     lifespan, trigger_sync              *)
(* workers/agentkubervise/supabase_client.py   SupabaseSync (DirectStore)  *)
(* workers/agentkubervise/api_client.py        APISync (RemoteSnapshot)    *)
(* workers/agentkubervise/cli.py               run_agent (CLI agent)       *)
(*                                                                         *)
(* The Supabase client and the Kubernetes client are synchronous: none of  *)
(* the sync_* coroutines suspends, so each one is a single step.  A sink   *)
(* call that raises has no effect on the sink; the calls made before it    *)
(* in the same try block have taken effect.                                *)
(*                                                                         *)
(* A behaviour exercises one part of the environment (env): the inventory  *)
(* with failing listings and sink outages, or the event stream and the     *)
(* shutdown signal over a small inventory.                                 *)
(***************************************************************************)
EXTENDS Integers, Sequences, FiniteSets, TLC

VARIABLES
    mode,           \* SYNC_MODE of the worker ("supabase", "api"), or "cli" for run_agent
    connected,      \* ClusterWatcher.connected (Kubernetes source)
    dsConnected,    \* data_sync.connected (sink client)
    syncing,        \* ClusterWatcher.syncing
    running,        \* run_agent's running flag
    pc,             \* position of sync_data / run_agent
    source,         \* the inventory held by the source at collection time
    collected,      \* the lists returned by get_*_raw in this cycle
    listFailed,     \* kinds whose listing call raised ApiException in this cycle
    namespace_ids,  \* the mapping returned by sync_namespaces in this cycle
    existing_pods,  \* sync_pods: rows read from the sink at the start of the pass
    current_pods,   \* sync_pods: keys of the collected pods that were resolved
    dels,           \* sync_pods: keys a delete was issued for in this pass
    ret,            \* what each sync_* call of this cycle returned
    failedCall,     \* per step, the index of the sink call that raised (0: none)
    tbl,            \* the sink's tables, per kind
    clusterStatus,  \* clusters.connection_status
    statusRows,     \* number of rows of cluster_status
    nextId,         \* next surrogate id the sink gives to an inserted pod row
    snapshot,       \* body of the last snapshot request the API received
    httpStatus,     \* status of the last snapshot request (0: none sent)
    sinkUp,         \* whether the sink is reachable during this cycle
    faults,         \* faults injected so far
    cycles,         \* cycles started so far
    ran,            \* whether the current cycle collected (the source was connected)
    prev,           \* what the previous cycle collected and left in the sink
    env,            \* which part of the environment a behaviour exercises
    watching,       \* ClusterWatcher.watching
    evPc,           \* position of the event task (watch_events)
    lsPc,           \* position of lifespan
    signalled,      \* whether SIGINT/SIGTERM has been delivered
    received,       \* notifications the event stream has yielded so far
    events,         \* the sink's cluster_events rows (by notification number)
    inserts,        \* cluster_events inserts issued so far
    disconnects,    \* successful writes of connection_status "disconnected"
    waited,         \* run_agent: one-second sleeps done in the current wait
    sigPc,          \* whether the signal came inside a cycle ("cycle", "idle")
    sdRet,          \* what lifespan's set_disconnected call returned
    updated_at,     \* pods.updated_at per key, as the cycle that wrote it
    posts,          \* snapshot requests made in the pass in hand
    trPc,           \* trigger_sync called during a cycle's request ("none", "post")
    trBody,         \* the body of the request that call of trigger_sync made
    manual,         \* whether the pass in hand is trigger_sync's, not sync_data's
    fetch           \* fetch_config_from_install_token: inputs, position, result

processVars == <<mode, connected, dsConnected, syncing, running, pc, source,
                 collected, listFailed, namespace_ids, existing_pods,
                 current_pods, dels, ret, failedCall, tbl, clusterStatus,
                 statusRows, nextId, snapshot, httpStatus, sinkUp, faults,
                 cycles, ran, prev, env, watching, evPc, lsPc, signalled,
                 received, events, inserts, disconnects, waited,
                 sigPc, sdRet, updated_at, posts, trPc, trBody, manual>>

vars == <<processVars, fetch>>

(***************************************************************************)
(* Bounds.                                                                 *)
(***************************************************************************)
MaxCycles == 2
MaxFaults == 1
MaxEvents == 2
SyncInterval == 2

NsNames == {"n1", "n2"}
NsOrder == <<"n1", "n2">>
PodOrder == << <<"n1", "p1">>, <<"n1", "p2">>, <<"n2", "p1">> >>

(***************************************************************************)
(* Resource kinds.                                                         *)
(***************************************************************************)
Kinds == {"nodes", "namespaces", "pods", "deployments", "statefulsets",
          "daemonsets", "services", "ingresses", "jobs"}

NamespacedKinds == {"pods", "deployments", "statefulsets", "daemonsets",
                    "services", "ingresses", "jobs"}

\* The kinds run_agent lists.
CliKinds == {"nodes", "namespaces", "pods", "deployments", "services"}

\* The keys of the snapshot body that carry collected lists.
SnapshotKinds == {"nodes", "pods", "namespaces", "deployments", "statefulsets",
                  "daemonsets", "services"}

\* The order of the sink calls of one DirectStore cycle.
StepOrderPodsFirst == <<"status", "nodes", "pods", "namespaces", "deployments",
                        "statefulsets", "daemonsets", "services", "ingresses",
                        "jobs">>
StepOrder == <<"status", "nodes", "namespaces", "pods", "deployments",
               "statefulsets", "daemonsets", "services", "ingresses", "jobs">>

Steps == {StepOrder[i] : i \in 1..Len(StepOrder)}

Range(s) == {s[i] : i \in 1..Len(s)}

NULL == "null"

\* The surrogate id the sink gives to the namespace row of a name.
NsId(n) == IF n = "n1" THEN "u1" ELSE IF n = "n2" THEN "u2" ELSE NULL

\* dict.get: the id of a name, None when the mapping has none.
Get(ids, n) == IF n \in DOMAIN ids THEN ids[n] ELSE NULL

EmptyMap == [n \in {} |-> NULL]

(***************************************************************************)
(* The inventory source.                                                   *)
(***************************************************************************)
\* The inventories the source may hold: namespaces and pods inside them; the
\* source always holds one node and, in every namespace, one object of each
\* other namespaced kind.
Inventories ==
    {[ns |-> n, pods |-> p] : n \in SUBSET NsNames, p \in SUBSET Range(PodOrder)}

\* A pod lives in a namespace the source holds.
ValidInventory(inv) == \A p \in inv.pods : p[1] \in inv.ns

ValidInventories == {inv \in Inventories : ValidInventory(inv)}

\* The inventories met while events and signals are exercised.
LifeInventories ==
    {inv \in ValidInventories : inv.ns = {"n1"} /\ inv.pods \subseteq {<<"n1", "p1">>}}

\* The list a successful listing call of kind k returns for inventory inv,
\* in the source's order (by namespace, then name).
ListOf(k, inv) ==
    LET nsSeq == SelectSeq(NsOrder, LAMBDA n : n \in inv.ns) IN
    CASE k = "nodes" -> <<"node1">>
      [] k = "namespaces" -> nsSeq
      [] k = "pods" -> SelectSeq(PodOrder, LAMBDA p : p \in inv.pods)
      [] OTHER -> [i \in 1..Len(nsSeq) |-> <<nsSeq[i], "r1">>]

EmptyInventory == [ns |-> {}, pods |-> {}]
EmptyCollected == [k \in Kinds |-> <<>>]
EmptyTbl == [k \in Kinds |-> {}]
RetSteps == Steps \cup {"snapshot"}
NoRet == [s \in RetSteps |-> "none"]
NoFailedCall == [s \in RetSteps |-> 0]
NoSnapshot == [k \in {} |-> <<>>]
NoDels == [k \in {} |-> 0]
EmptyStamps == [k \in {} |-> 0]

(***************************************************************************)
(* Sink calls and their failures.                                          *)
(*                                                                         *)
(* Every sync_* method wraps all of its sink calls in one try block.  A    *)
(* pass that would make n calls is given c, the index of the call that     *)
(* raises: 0 when none does, -1 when the method returned at its            *)
(* "not connected" guard before making any call.                           *)
(***************************************************************************)
Min(a, b) == IF a < b THEN a ELSE b
Max(a, b) == IF a > b THEN a ELSE b

\* The indices at which a pass of n sink calls may fail in this cycle.
FaultCalls(n) ==
    IF ~dsConnected THEN {-1}
    ELSE IF n = 0 THEN {0}
    ELSE IF ~sinkUp THEN {1}
    ELSE {0} \cup (IF faults < MaxFaults THEN 1..n ELSE {})

\* The number of calls that took effect when call c raised.
CompletedOffByOne(c, n) == IF c = 0 THEN n ELSE IF c < 0 THEN 0 ELSE c
Completed(c, n) == IF c = 0 THEN n ELSE IF c < 0 THEN 0 ELSE c - 1

\* The value a sync_* method returns: True, or False from its except branch
\* (or its guard).
Returned(c) == IF c = 0 THEN "true" ELSE "false"

\* The step sync_data goes to after a sync_* call has returned r: the
\* methods catch their own exceptions, so the next call always follows.
NextStep(step) ==
    LET i == CHOOSE j \in 1..Len(StepOrder) : StepOrder[j] = step
    IN IF i = Len(StepOrder) THEN "sleep" ELSE StepOrder[i + 1]

\* The kinds trigger_sync lists, and its sink calls in DirectStore mode, in
\* order; the handler returns after the last of them.
TriggerKinds == {"nodes", "pods", "namespaces"}
TriggerOrder == <<"status", "nodes", "namespaces", "pods">>

NextTriggerStep(step) ==
    LET i == CHOOSE j \in 1..Len(TriggerOrder) : TriggerOrder[j] = step
    IN IF i = Len(TriggerOrder) THEN "sleep" ELSE TriggerOrder[i + 1]

AfterStepRaising(step, r) == IF r = "false" THEN "sleep" ELSE NextStep(step)
AfterStep(step, r) == NextStep(step)

\* The step that follows the collection, whichever listing calls failed:
\* get_*_raw turns an ApiException into an empty list.
CollectExitRaising(m, failed) ==
    IF failed # {} THEN "sleep"
    ELSE IF m = "supabase" THEN "status" ELSE IF m = "api" THEN "snapshot" ELSE "post"
CollectExit(m, failed) ==
    IF m = "supabase" THEN "status" ELSE IF m = "api" THEN "snapshot" ELSE "post"

\* Bookkeeping shared by the sync_* steps: the return value, the failing
\* call, the fault count and the next step.
Finish(step, c) ==
    /\ ret' = [ret EXCEPT ![step] = Returned(c)]
    /\ failedCall' = [failedCall EXCEPT ![step] = c]
    /\ faults' = IF c > 0 /\ sinkUp THEN faults + 1 ELSE faults
    /\ pc' = IF manual THEN NextTriggerStep(step)
             ELSE AfterStep(step, Returned(c))

\* set_disconnected: SupabaseSync updates connection_status when its call
\* (c = 0) succeeds; APISync issues no request and returns True.
SetDisconnectedBoth(m, c, status) ==
    IF c = 0 THEN "disconnected" ELSE status
SetDisconnected(m, c, status) ==
    IF m = "supabase" /\ c = 0 THEN "disconnected" ELSE status

(***************************************************************************)
(* Rows and keys.                                                          *)
(***************************************************************************)
Key(row) == <<row.namespace_id, row.name>>
Keys(rows) == {Key(r) : r \in rows}

\* The records of a collected list that pass "if not namespace_id: continue".
ResolvedNoGate(recs, ids) == recs
Resolved(recs, ids) == SelectSeq(recs, LAMBDA r : Get(ids, r[1]) # NULL)

\* The key a collected record is upserted under.
KeyOf(rec, ids) == <<Get(ids, rec[1]), rec[2]>>

\* upsert(..., on_conflict="cluster_id,namespace_id,name") of the first up
\* keys: a row with the key is updated in place, otherwise a row is inserted
\* under a fresh id.
RECURSIVE UpsertFromInsert(_, _, _, _, _)
UpsertFromInsert(rows, keys, i, up, nid) ==
    IF i > up THEN [rows |-> rows, nid |-> nid]
    ELSE UpsertFromInsert(rows \cup {[id |-> nid, namespace_id |-> keys[i][1],
                                      name |-> keys[i][2]]},
                          keys, i + 1, up, nid + 1)

RECURSIVE UpsertFrom(_, _, _, _, _)
UpsertFrom(rows, keys, i, up, nid) ==
    IF i > up THEN [rows |-> rows, nid |-> nid]
    ELSE IF \E r \in rows : Key(r) = keys[i]
         THEN UpsertFrom(rows, keys, i + 1, up, nid)
         ELSE UpsertFrom(rows \cup {[id |-> nid, namespace_id |-> keys[i][1],
                                     name |-> keys[i][2]]},
                         keys, i + 1, up, nid + 1)

\* The updated_at an upsert of the first up keys leaves: the time of the
\* upsert for each of them, whether its row was inserted or updated.
StampedIgnore(old, keys, up, t) ==
    [k \in DOMAIN old \cup {keys[i] : i \in 1..up} |->
        IF k \in DOMAIN old THEN old[k] ELSE t]
Stamped(old, keys, up, t) ==
    [k \in DOMAIN old \cup {keys[i] : i \in 1..up} |->
        IF k \in {keys[i] : i \in 1..up} THEN t ELSE old[k]]

\* select("id, name, namespace_id") of the pods table.
ExistingPodsStale(rows) == {}
ExistingPods(rows) == rows

\* deleted_pods = set(existing_pods.keys()) - current_pods
DeletedPodsAll(existingKeys, currentKeys) == existingKeys
DeletedPodsNone(existingKeys, currentKeys) == {}
DeletedPods(existingKeys, currentKeys) == existingKeys \ currentKeys

\* The number of delete calls that took effect when done calls of a pass
\* over nRes resolved pods did: the delete loop follows the upsert loop in
\* the same try block, so it is reached only when the read and every upsert
\* went through.
DeleteCallsAfterRead(done, nRes, nDue) == IF done >= 1 THEN nDue ELSE 0
DeleteCalls(done, nRes, nDue) == Max(done - 1 - nRes, 0)

\* delete().eq("id", pod_id) for the ids the pass read for the keys in D.
DeleteById(rows, existing, D) ==
    {r \in rows : r.id \notin {e.id : e \in {x \in existing : Key(x) \in D}}}


(***************************************************************************)
(* State after construction: the module-level watcher and sync client,     *)
(* before lifespan (or run_agent) has started the loop.                    *)
(***************************************************************************)
\* lifespan has not yet called cancel() on the background tasks.
NotCancelled == lsPc \notin {"cancelling", "stopped"}

NoPrev == [ran |-> FALSE, clean |-> FALSE, collected |-> EmptyCollected,
           tbl |-> EmptyTbl, clusterStatus |-> "unknown", statusRows |-> 0]

ProcessInit ==
    /\ mode \in {"supabase", "api", "cli"}
    /\ connected = FALSE
    /\ dsConnected = FALSE
    /\ syncing = FALSE
    /\ running = FALSE
    /\ pc = "boot"
    /\ source = EmptyInventory
    /\ collected = EmptyCollected
    /\ listFailed = {}
    /\ namespace_ids = EmptyMap
    /\ existing_pods = {}
    /\ current_pods = {}
    /\ dels = NoDels
    /\ ret = NoRet
    /\ failedCall = NoFailedCall
    /\ tbl = EmptyTbl
    /\ clusterStatus = "unknown"
    /\ statusRows = 0
    /\ nextId = 1
    /\ snapshot = NoSnapshot
    /\ httpStatus = 0
    /\ sinkUp = TRUE
    /\ faults = 0
    /\ cycles = 0
    /\ ran = FALSE
    /\ prev = NoPrev
    /\ env \in {"inventory", "lifecycle"}
    /\ watching = FALSE
    /\ evPc = "none"
    /\ lsPc = "init"
    /\ signalled = FALSE
    /\ received = 0
    /\ events = {}
    /\ inserts = 0
    /\ disconnects = 0
    /\ waited = 0
    /\ sigPc = "none"
    /\ sdRet = "none"
    /\ updated_at = EmptyStamps
    /\ posts = 0
    /\ trPc = "none"
    /\ trBody = NoSnapshot
    /\ manual = FALSE

\* No install token was given: fetch_config_from_install_token is not
\* called.
NoFetch == [token |-> "", responses |-> <<>>, idx |-> 0, kind |-> "unused",
            cfg |-> [api_url |-> "", agent_token |-> "", cluster_id |-> ""],
            contacted |-> <<>>]

Init == ProcessInit /\ fetch = NoFetch

sinkVars == <<tbl, clusterStatus, statusRows, nextId, snapshot, updated_at>>
passVars == <<namespace_ids, existing_pods, current_pods, dels, posts>>
procVars == <<mode, connected, dsConnected, syncing, running>>
cycleVars == <<source, collected, listFailed, sinkUp, cycles, ran, prev, manual>>
eventVars == <<watching, evPc, received, events, inserts>>
lifeVars == <<env, lsPc, signalled, disconnects, waited, sigPc, sdRet>>

(***************************************************************************)
(* sync_data: entry and collection.                                        *)
(***************************************************************************)
\* lifespan, startup: watcher.connect() and data_sync.connect() succeed or
\* not, then the background tasks are created.
LifespanStartup ==
    /\ pc = "boot"
    /\ mode \in {"supabase", "api"}
    /\ connected' \in BOOLEAN
    /\ dsConnected' \in BOOLEAN
    /\ pc' = "start"
    /\ evPc' = "created"
    /\ lsPc' = "serving"
    /\ UNCHANGED <<fetch, trPc, trBody, mode, syncing, running, sinkVars, passVars, cycleVars, ret,
                   failedCall, faults, httpStatus, env, signalled, disconnects,
                   waited, sigPc, sdRet, watching, received, events, inserts>>

\* Where sync_data goes from its entry: it returns when the sink client is
\* not connected, and enters its loop otherwise.
SyncDataEntryAlways(sinkConnected) == "loop"
SyncDataEntry(sinkConnected) == IF sinkConnected THEN "loop" ELSE "returned"

\* sync_data up to its loop: return at once when the sink client is not
\* connected, otherwise set the syncing flag.  The task was created after
\* the event task, and watch_events has no point of suspension: the first
\* step of sync_data comes after watch_events has run to its end.
SyncDataStart ==
    /\ pc = "start"
    /\ mode \in {"supabase", "api"}
    /\ evPc = "done"
    /\ NotCancelled
    /\ pc' = SyncDataEntry(dsConnected)
    /\ IF pc' = "returned"
       THEN UNCHANGED syncing
       ELSE syncing' = TRUE
    /\ UNCHANGED <<fetch, trPc, trBody, eventVars, lifeVars, mode, connected, dsConnected, running, sinkVars, passVars,
                   cycleVars, ret, failedCall, faults, httpStatus>>

\* Whether every source and sink call of the cycle so far has succeeded.
CycleClean ==
    /\ listFailed = {}
    /\ sinkUp
    /\ \A s \in RetSteps : failedCall[s] = 0 /\ ret[s] # "false"
    /\ httpStatus \in {0, 200}

\* What the cycle that ends here leaves behind for the next one to be
\* compared with.
EndOfCycle ==
    [ran |-> ran, clean |-> CycleClean, collected |-> collected, tbl |-> tbl,
     clusterStatus |-> clusterStatus, statusRows |-> statusRows]

\* The sets of listing calls that may fail in this cycle.
FailingLists(listed) ==
    IF faults >= MaxFaults THEN {{}}
    ELSE {F \in SUBSET listed : Cardinality(F) <= MaxFaults - faults}

\* What the listing calls of a cycle may meet in each environment: every
\* inventory, failed listings and a sink outage where the inventory is
\* exercised; a small inventory where events and signals are.
EnvInventories == IF env = "inventory" THEN ValidInventories ELSE LifeInventories
EnvFailingLists(listed) == IF env = "inventory" THEN FailingLists(listed) ELSE {{}}
EnvSinkUp == IF env = "inventory" THEN BOOLEAN ELSE {TRUE}

\* The listing calls of one cycle: the source holds inv, the calls of the
\* kinds in F raise ApiException and yield [], and the sink is reachable
\* during the cycle or not (up).
CollectLists(listed, inv, F, up) ==
    /\ Cardinality(F) + (IF up THEN 0 ELSE 1) <= MaxFaults - faults
    /\ cycles < MaxCycles
    /\ source' = inv
    /\ collected' = [k \in Kinds |->
                        IF k \in listed \ F THEN ListOf(k, inv) ELSE <<>>]
    /\ listFailed' = F
    /\ sinkUp' = up
    /\ faults' = faults + Cardinality(F) + (IF up THEN 0 ELSE 1)
    /\ cycles' = cycles + 1
    /\ ran' = TRUE
    /\ prev' = EndOfCycle
    /\ namespace_ids' = EmptyMap
    /\ existing_pods' = {}
    /\ current_pods' = {}
    /\ dels' = NoDels
    /\ posts' = 0
    /\ ret' = NoRet
    /\ failedCall' = NoFailedCall
    /\ httpStatus' = 0
    /\ pc' = CollectExit(mode, F)

\* sync_data, top of a cycle with the source connected: the nine get_*_raw
\* calls.
Collect ==
    /\ pc = "loop"
    /\ mode \in {"supabase", "api"}
    /\ syncing
    /\ connected
    /\ cycles < MaxCycles
    /\ \E F \in EnvFailingLists(Kinds), up \in EnvSinkUp, inv \in EnvInventories :
          CollectLists(Kinds, inv, F, up)
    /\ manual' = FALSE
    /\ UNCHANGED <<fetch, trPc, trBody, eventVars, lifeVars, procVars, sinkVars>>

\* Where sync_data goes from the else branch of "if self.connected": past
\* every sink call, to the sleep at the end of the loop body.
SkipExitIntoCycle(m) == IF m = "api" THEN "snapshot" ELSE "status"
SkipExit(m) == "sleep"

\* sync_data, top of a cycle with the source not connected: the cycle is
\* skipped.
SkipCycle ==
    /\ pc = "loop"
    /\ mode \in {"supabase", "api"}
    /\ syncing
    /\ ~connected
    /\ cycles < MaxCycles
    /\ cycles' = cycles + 1
    /\ ran' = FALSE
    /\ prev' = EndOfCycle
    /\ source' = EmptyInventory
    /\ collected' = EmptyCollected
    /\ listFailed' = {}
    /\ sinkUp' = TRUE
    /\ namespace_ids' = EmptyMap
    /\ existing_pods' = {}
    /\ current_pods' = {}
    /\ dels' = NoDels
    /\ posts' = 0
    /\ ret' = NoRet
    /\ failedCall' = NoFailedCall
    /\ httpStatus' = 0
    /\ manual' = FALSE
    /\ pc' = SkipExit(mode)
    /\ UNCHANGED <<fetch, trPc, trBody, eventVars, lifeVars, procVars, sinkVars, faults>>

\* trigger_sync (POST /sync/trigger), up to its first sink call: the three
\* listing calls, which return [] when the source is not connected.  The
\* handler runs while sync_data is suspended in its sleep; in DirectStore
\* mode it awaits nothing, so sync_data resumes after it has returned.  The
\* server accepts requests between startup and the shutdown signal.
TriggerSync ==
    /\ pc = "sleep"
    /\ mode \in {"supabase", "api"}
    /\ evPc = "done"
    /\ lsPc = "serving"
    /\ ~signalled
    /\ dsConnected
    /\ cycles < MaxCycles
    /\ IF connected
       THEN \E F \in EnvFailingLists(TriggerKinds), up \in EnvSinkUp,
               inv \in EnvInventories :
                  CollectLists(TriggerKinds, inv, F, up)
       ELSE \E up \in EnvSinkUp : CollectLists({}, EmptyInventory, {}, up)
    /\ manual' = TRUE
    /\ UNCHANGED <<fetch, trPc, trBody, eventVars, lifeVars, procVars, sinkVars>>

\* The body trigger_sync hands to sync_snapshot for inventory inv: the three
\* lists it collected, and [] for every list it does not pass.
TriggerBody(inv) ==
    [k \in SnapshotKinds \cup {"events"} |->
        IF k \in TriggerKinds THEN ListOf(k, inv) ELSE <<>>]

\* trigger_sync in api mode, called while the request of a cycle of
\* sync_data is awaited: nothing keeps the handler from running, so it
\* lists its three kinds and awaits its own request.
TriggerDuringPost ==
    /\ mode = "api"
    /\ env = "lifecycle"
    /\ pc = "snapshot"
    /\ ~manual
    /\ trPc = "none"
    /\ trBody = NoSnapshot
    /\ lsPc = "serving"
    /\ ~signalled
    /\ dsConnected
    /\ \E inv \in EnvInventories : trBody' = TriggerBody(inv)
    /\ trPc' = "post"
    /\ UNCHANGED <<fetch, eventVars, lifeVars, procVars, sinkVars, passVars,
                   cycleVars, ret, failedCall, faults, httpStatus, pc>>

\* The request of that handler ends, in a response, a timeout or an error:
\* sync_snapshot returns and trigger_sync answers "synced" whatever it
\* returned.
TriggerPostDone ==
    /\ trPc = "post"
    /\ trPc' = "none"
    /\ UNCHANGED <<fetch, trBody, eventVars, lifeVars, procVars, sinkVars, passVars,
                   cycleVars, ret, failedCall, faults, httpStatus, pc>>

\* await asyncio.sleep(sync_interval) returns, back to the loop condition.
Sleep ==
    /\ pc = "sleep"
    /\ mode \in {"supabase", "api"}
    /\ NotCancelled
    /\ cycles < MaxCycles \/ ~syncing
    /\ pc' = "loop"
    /\ UNCHANGED <<fetch, trPc, trBody, eventVars, lifeVars, procVars, sinkVars, passVars, cycleVars, ret, failedCall,
                   faults, httpStatus>>


(***************************************************************************)
(* DirectStore: the sink calls of one cycle, in the order of sync_data.    *)
(***************************************************************************)
\* The rows of a kind without deletion after the upserts of a pass: a row
\* whose key is already there is updated in place, the others are added, and
\* no row is removed.
UpsertRowsReplacing(rows, new) == new
UpsertRows(rows, new) == rows \cup new

\* update_cluster_status: mark the cluster connected, then insert a status
\* snapshot row.
UpdateClusterStatus ==
    /\ pc = "status"
    /\ \E c \in FaultCalls(2) :
          LET done == Completed(c, 2) IN
          /\ clusterStatus' = IF done >= 1 THEN "connected" ELSE clusterStatus
          /\ statusRows' = IF done >= 2 THEN statusRows + 1 ELSE statusRows
          /\ Finish("status", c)
    /\ UNCHANGED <<fetch, trPc, trBody, eventVars, lifeVars, procVars, cycleVars, passVars, tbl, nextId, updated_at, snapshot,
                   httpStatus>>

\* sync_nodes: one upsert per collected node.
SyncNodes ==
    /\ pc = "nodes"
    /\ LET recs == collected["nodes"] IN
       \E c \in FaultCalls(Len(recs)) :
          LET done == Completed(c, Len(recs)) IN
          /\ tbl' = [tbl EXCEPT
                       !["nodes"] = UpsertRows(@, {recs[i] : i \in 1..done})]
          /\ Finish("nodes", c)
    /\ UNCHANGED <<fetch, trPc, trBody, eventVars, lifeVars, procVars, cycleVars, passVars, clusterStatus, statusRows,
                   nextId, updated_at, snapshot, httpStatus>>

\* The mapping sync_namespaces returns: after the re-read (c = 0) an id for
\* every namespace row of the cluster; from its except branch the ids of the
\* rows upserted before the call that raised.
NamespaceIdsLost(c, rows, upserted) ==
    IF c = 0 THEN [n \in rows |-> NsId(n)] ELSE EmptyMap
NamespaceIdsNoReread(c, rows, upserted) == [n \in upserted |-> NsId(n)]
NamespaceIds(c, rows, upserted) ==
    IF c = 0 THEN [n \in rows |-> NsId(n)] ELSE [n \in upserted |-> NsId(n)]

\* sync_namespaces: one upsert per collected namespace, each adding the id
\* of its row to the mapping, then a re-read of all rows of the cluster.  On
\* an exception the mapping built so far is returned.
SyncNamespaces ==
    /\ pc = "namespaces"
    /\ LET recs == collected["namespaces"] IN
       \E c \in FaultCalls(Len(recs) + 1) :
          LET done == Completed(c, Len(recs) + 1)
              up == Min(done, Len(recs))
              upserted == {recs[i] : i \in 1..up}
              rows == UpsertRows(tbl["namespaces"], upserted)
          IN
          /\ tbl' = [tbl EXCEPT !["namespaces"] = rows]
          /\ namespace_ids' = NamespaceIds(c, rows, upserted)
          /\ Finish("namespaces", c)
    /\ UNCHANGED <<fetch, trPc, trBody, eventVars, lifeVars, procVars, cycleVars, existing_pods, current_pods, dels,
                   posts, clusterStatus, statusRows, nextId, updated_at, snapshot, httpStatus>>

\* sync_pods: read the existing rows, upsert every resolved pod, then
\* delete the rows whose key was read but is not among the current keys.
SyncPods ==
    /\ pc = "pods"
    /\ LET res == Resolved(collected["pods"], namespace_ids)
           keys == [i \in 1..Len(res) |-> KeyOf(res[i], namespace_ids)]
           existing == ExistingPods(tbl["pods"])
           toDelete == DeletedPods(Keys(existing), Range(keys))
           n == 1 + Len(res) + Cardinality(toDelete)
       IN
       \E c \in FaultCalls(n) :
          LET done == Completed(c, n)
              up == Min(Max(done - 1, 0), Len(res))
              nDel == DeleteCalls(done, Len(res), Cardinality(toDelete))
              upserted == UpsertFrom(tbl["pods"], keys, 1, up, nextId)
          IN
          \E D \in SUBSET toDelete :
             \E f \in SUBSET (toDelete \ D) :
                /\ Cardinality(D) = nDel
                /\ Cardinality(f) = IF c > 1 + Len(res) THEN 1 ELSE 0
                /\ existing_pods' = IF done >= 1 THEN existing ELSE {}
                /\ current_pods' = {keys[i] : i \in 1..Min(Len(res), done)}
                /\ dels' = [k \in D \cup f |-> 1]
                /\ tbl' = [tbl EXCEPT
                             !["pods"] = DeleteById(upserted.rows, existing, D)]
                /\ nextId' = upserted.nid
                /\ updated_at' =
                      LET st == Stamped(updated_at, keys, up, cycles)
                      IN [k \in Keys(tbl'["pods"]) |-> st[k]]
                /\ Finish("pods", c)
    /\ UNCHANGED <<fetch, trPc, trBody, eventVars, lifeVars, procVars, cycleVars, namespace_ids, posts,
                   clusterStatus, statusRows, snapshot, httpStatus>>

\* sync_deployments, sync_statefulsets, sync_daemonsets, sync_services,
\* sync_ingresses, sync_jobs: one upsert per resolved record, no delete.
SyncNamespacedKind(k) ==
    /\ pc = k
    /\ LET res == Resolved(collected[k], namespace_ids) IN
       \E c \in FaultCalls(Len(res)) :
          LET done == Completed(c, Len(res)) IN
          /\ tbl' = [tbl EXCEPT ![k] = UpsertRows(@,
                        {[namespace_id |-> KeyOf(res[i], namespace_ids)[1],
                          name |-> KeyOf(res[i], namespace_ids)[2]] :
                            i \in 1..done})]
          /\ Finish(k, c)
    /\ UNCHANGED <<fetch, trPc, trBody, eventVars, lifeVars, procVars, cycleVars, passVars, clusterStatus, statusRows,
                   nextId, updated_at, snapshot, httpStatus>>

SyncDeployments == SyncNamespacedKind("deployments")
SyncStatefulsets == SyncNamespacedKind("statefulsets")
SyncDaemonsets == SyncNamespacedKind("daemonsets")
SyncServices == SyncNamespacedKind("services")
SyncIngresses == SyncNamespacedKind("ingresses")
SyncJobs == SyncNamespacedKind("jobs")


(***************************************************************************)
(* RemoteSnapshot: one request per cycle.                                  *)
(***************************************************************************)
\* What a snapshot request may end in while the sink is reachable: a status
\* code, -1 for httpx.TimeoutException, -2 for another request error.
HttpOutcomes == {200, 201, 403, 404, 500, -1, -2}

\* The outcomes open to the request of this cycle.
RequestOutcomes ==
    IF ~sinkUp THEN {-2}
    ELSE {200} \cup (IF faults < MaxFaults THEN HttpOutcomes ELSE {})

\* Where a pass goes after its snapshot request has ended in st: to the
\* inter-cycle sleep, whatever the outcome.
AfterPostExit(step, st) == IF st = 200 THEN "sleep" ELSE "stopped"
AfterPostRetry(step, st) == IF st = 200 THEN "sleep" ELSE step
AfterPost(step, st) == "sleep"

\* The body sync_data hands to sync_snapshot: the lists it passes by
\* keyword, and no events.
WorkerSnapshot ==
    [k \in SnapshotKinds \cup {"events"} |->
        IF k = "events" THEN <<>> ELSE collected[k]]

\* APISync.sync_snapshot as called by sync_data: True exactly on status 200.
SyncSnapshot ==
    /\ pc = "snapshot"
    /\ NotCancelled
    /\ IF ~dsConnected
       THEN /\ ret' = [ret EXCEPT !["snapshot"] = "false"]
            /\ failedCall' = [failedCall EXCEPT !["snapshot"] = -1]
            /\ pc' = "sleep"
            /\ UNCHANGED <<snapshot, httpStatus, faults, posts>>
       ELSE \E st \in RequestOutcomes :
               /\ httpStatus' = st
               /\ posts' = posts + 1
               /\ pc' = AfterPost("snapshot", st)
               /\ snapshot' = IF st > 0 THEN WorkerSnapshot ELSE snapshot
               /\ ret' = [ret EXCEPT
                            !["snapshot"] = IF st = 200 THEN "true" ELSE "false"]
               /\ failedCall' = [failedCall EXCEPT
                                   !["snapshot"] = IF st = 200 THEN 0 ELSE 1]
               /\ faults' = IF st # 200 /\ sinkUp THEN faults + 1 ELSE faults
    /\ UNCHANGED <<fetch, trPc, trBody, eventVars, lifeVars, procVars, cycleVars, namespace_ids, existing_pods,
                   current_pods, dels, tbl, clusterStatus, statusRows, nextId,
                   updated_at>>

(***************************************************************************)
(* run_agent (cli.py): the CLI agent's loop.                               *)
(***************************************************************************)
\* run_agent up to its loop: exit when no Kubernetes configuration loads,
\* otherwise create the HTTP client and set running.
RunAgentStart ==
    /\ pc = "boot"
    /\ mode = "cli"
    /\ \E loaded \in BOOLEAN :
          IF ~loaded
          THEN /\ pc' = "exited"
               /\ UNCHANGED <<connected, dsConnected, running>>
          ELSE /\ connected' = TRUE
               /\ dsConnected' = TRUE
               /\ running' = TRUE
               /\ pc' = "loop"
    /\ UNCHANGED <<fetch, trPc, trBody, eventVars, lifeVars, mode, syncing, sinkVars, passVars, cycleVars, ret,
                   failedCall, faults, httpStatus>>

\* run_agent, the five listing calls of a cycle, each in its own
\* try/except ApiException.
RunAgentCollect ==
    /\ pc = "loop"
    /\ mode = "cli"
    /\ running
    /\ cycles < MaxCycles
    /\ \E F \in EnvFailingLists(CliKinds), up \in EnvSinkUp, inv \in EnvInventories :
          CollectLists(CliKinds, inv, F, up)
    /\ manual' = FALSE
    /\ UNCHANGED <<fetch, trPc, trBody, eventVars, lifeVars, procVars, sinkVars>>

\* The body run_agent posts: the five collected lists, and empty lists for
\* statefulsets, daemonsets and events.
AgentSnapshot ==
    [k \in SnapshotKinds \cup {"events"} |->
        IF k \in CliKinds THEN collected[k] ELSE <<>>]

\* run_agent, the snapshot request: every outcome is only logged.
RunAgentPost ==
    /\ pc = "post"
    /\ \E st \in RequestOutcomes :
          /\ httpStatus' = st
          /\ snapshot' = IF st > 0 THEN AgentSnapshot ELSE snapshot
          /\ faults' = IF st # 200 /\ sinkUp THEN faults + 1 ELSE faults
          /\ posts' = posts + 1
          /\ pc' = AfterPost("post", st)
    /\ UNCHANGED <<fetch, trPc, trBody, eventVars, lifeVars, procVars, cycleVars, namespace_ids, existing_pods,
                   current_pods, dels, tbl, clusterStatus, statusRows, nextId,
                   updated_at, ret, failedCall>>

(***************************************************************************)
(* run_agent: the inter-cycle wait and the exit.                           *)
(***************************************************************************)
\* Whether the wait ends at this pass: running was cleared, or every
\* one-second sleep has been done.
WaitOverNoBreak(run, w) == w >= SyncInterval
WaitOver(run, w) == ~run \/ w >= SyncInterval

\* One pass of "for _ in range(sync_interval)": break when running is
\* cleared, otherwise sleep one second; the loop condition follows the
\* last pass.
AgentWait ==
    /\ pc = "sleep"
    /\ mode = "cli"
    /\ IF WaitOver(running, waited)
       THEN /\ pc' = "loop"
            /\ waited' = 0
       ELSE /\ waited' = waited + 1
            /\ UNCHANGED pc
    /\ UNCHANGED <<fetch, trPc, trBody, eventVars, procVars, sinkVars, passVars, cycleVars, ret,
                   failedCall, faults, httpStatus, env, lsPc, signalled,
                   disconnects, sigPc, sdRet>>

\* "while running" found false: close the HTTP client and return.
RunAgentStop ==
    /\ pc = "loop"
    /\ mode = "cli"
    /\ ~running
    /\ dsConnected' = FALSE
    /\ pc' = "stopped"
    /\ UNCHANGED <<fetch, trPc, trBody, eventVars, lifeVars, mode, connected, syncing, running,
                   sinkVars, passVars, cycleVars, ret, failedCall, faults,
                   httpStatus>>

(***************************************************************************)
(* The event task: watch_events.                                           *)
(*                                                                         *)
(* The stream is iterated with a plain "for" and the only await is of      *)
(* add_event, which awaits nothing: the coroutine has no point of          *)
(* suspension.  From its first step to its return it holds the event       *)
(* loop; no other task and no part of lifespan runs while evPc is          *)
(* "streaming".                                                            *)
(***************************************************************************)
\* watch_events up to the stream: return at once when the source is not
\* connected, otherwise set watching and subscribe.
WatchEventsStart ==
    /\ evPc = "created"
    /\ IF ~connected
       THEN /\ evPc' = "done"
            /\ UNCHANGED watching
       ELSE /\ watching' = TRUE
            /\ evPc' = "streaming"
    /\ UNCHANGED <<fetch, trPc, trBody, lifeVars, procVars, sinkVars, passVars, cycleVars, ret,
                   failedCall, faults, httpStatus, pc, received, events,
                   inserts>>

\* "if SYNC_MODE == "supabase" and data_sync.connected": whether a
\* notification is handed to add_event.
AddEventAlways(m, conn) == conn
AddEvent(m, conn) == m = "supabase" /\ conn

\* add_event catches the exception of its insert and returns False: the
\* loop of watch_events goes on to the next notification.
AfterInsertRaising(c) == IF c > 0 THEN "done" ELSE "streaming"
AfterInsert(c) == "streaming"

\* One pass of the loop body: the stream yields a notification; it is
\* forwarded with add_event in supabase mode while the sink client is
\* connected.
WatchEvent ==
    /\ evPc = "streaming"
    /\ env = "lifecycle"
    /\ received < MaxEvents
    /\ IF ~watching
       THEN /\ evPc' = "done"
            /\ UNCHANGED <<watching, received, events, inserts, faults>>
       ELSE /\ received' = received + 1
            /\ UNCHANGED watching
            /\ IF AddEvent(mode, dsConnected)
               THEN \E c \in FaultCalls(1) :
                       /\ evPc' = AfterInsert(c)
                       /\ inserts' = inserts + 1
                       /\ events' = IF c = 0 THEN events \cup {received + 1}
                                    ELSE events
                       /\ faults' = IF c > 0 THEN faults + 1 ELSE faults
               ELSE UNCHANGED <<evPc, events, inserts, faults>>
    /\ UNCHANGED <<fetch, trPc, trBody, lifeVars, procVars, sinkVars, passVars, cycleVars, ret,
                   failedCall, httpStatus, pc>>

\* The watching flag as the finally block of watch_events leaves it.
FinallyKeepsFlag(w) == w
Finally(w) == FALSE

\* The stream ends or raises (upstream error, server-side timeout): the
\* except and finally blocks run and the coroutine returns.
StreamEnds ==
    /\ evPc = "streaming"
    /\ watching' = Finally(watching)
    /\ evPc' = "done"
    /\ UNCHANGED <<fetch, trPc, trBody, lifeVars, procVars, sinkVars, passVars, cycleVars, ret,
                   failedCall, faults, httpStatus, pc, received, events,
                   inserts>>

(***************************************************************************)
(* Shutdown.                                                               *)
(***************************************************************************)
\* SIGINT or SIGTERM is delivered: run_agent's handler clears running; the
\* worker's server notes the request and resumes lifespan when the event
\* loop next runs it.
Signal ==
    /\ env = "lifecycle"
    /\ ~signalled
    /\ pc \notin {"boot", "exited", "stopped"}
    /\ signalled' = TRUE
    /\ sigPc' = IF pc \in Steps \cup {"snapshot", "post"} THEN "cycle" ELSE "idle"
    /\ running' = IF mode = "cli" THEN FALSE ELSE running
    /\ UNCHANGED <<fetch, trPc, trBody, eventVars, mode, connected, dsConnected, syncing, sinkVars,
                   passVars, cycleVars, ret, failedCall, faults, httpStatus,
                   pc, env, lsPc, disconnects, waited, sdRet>>

\* The sync task is suspended in an await: the sleep, or (api) the snapshot
\* request of its own cycle.  A request of trigger_sync in flight is
\* awaited by the server before lifespan is resumed.
SuspendedAnywhere ==
    pc \notin {"boot", "start", "returned", "stopped", "cancelled", "exited"}
Suspended == pc = "sleep" \/ (mode = "api" /\ pc = "snapshot" /\ ~manual)

\* The sync task has returned or was cancelled.
SyncTaskDone == pc \in {"returned", "stopped", "cancelled"}

\* The syncing flag as the shutdown of lifespan leaves it.
ShutdownSyncingKept(s) == s
ShutdownSyncing(s) == FALSE

\* lifespan after the yield, up to its first suspension: clear both flags,
\* call set_disconnected, then (api) await close(), (supabase) cancel both
\* tasks and await them.
LifespanShutdown ==
    /\ mode \in {"supabase", "api"}
    /\ lsPc = "serving"
    /\ signalled
    /\ evPc = "done"
    /\ trPc = "none"
    /\ Suspended \/ SyncTaskDone
    /\ watching' = FALSE
    /\ syncing' = ShutdownSyncing(syncing)
    /\ IF mode = "supabase"
       THEN \E c \in FaultCalls(1) :
               /\ clusterStatus' = SetDisconnected(mode, c, clusterStatus)
               /\ disconnects' = IF c = 0 THEN disconnects + 1 ELSE disconnects
               /\ sdRet' = Returned(c)
               /\ faults' = IF c > 0 /\ sinkUp THEN faults + 1 ELSE faults
               /\ lsPc' = "cancelling"
       ELSE /\ clusterStatus' = SetDisconnected(mode, 0, clusterStatus)
            /\ sdRet' = "true"
            /\ UNCHANGED <<disconnects, faults>>
            /\ lsPc' = IF dsConnected THEN "closing" ELSE "cancelling"
    /\ UNCHANGED <<fetch, trPc, trBody, mode, connected, dsConnected, running, tbl, statusRows,
                   nextId, updated_at, snapshot, passVars, cycleVars, ret, failedCall,
                   httpStatus, pc, env, signalled, waited, sigPc, evPc,
                   received, events, inserts>>

\* APISync.close returns (the client is closed and dropped), then lifespan
\* cancels both tasks and awaits them.
LifespanClosed ==
    /\ lsPc = "closing"
    /\ Suspended \/ SyncTaskDone
    /\ dsConnected' = FALSE
    /\ lsPc' = "cancelling"
    /\ UNCHANGED <<fetch, trPc, trBody, eventVars, mode, connected, syncing, running, sinkVars,
                   passVars, cycleVars, ret, failedCall, faults, httpStatus,
                   pc, env, signalled, disconnects, waited, sigPc, sdRet>>

\* The cancelled sync task is resumed with CancelledError at the await it
\* is suspended in; nothing in sync_data catches it.
SyncCancelled ==
    /\ lsPc = "cancelling"
    /\ Suspended
    /\ pc' = "cancelled"
    /\ UNCHANGED <<fetch, trPc, trBody, eventVars, lifeVars, procVars, sinkVars, passVars,
                   cycleVars, ret, failedCall, faults, httpStatus>>

\* sync_data finds "while self.syncing" false and returns.
SyncDataExit ==
    /\ pc = "loop"
    /\ mode \in {"supabase", "api"}
    /\ ~syncing
    /\ NotCancelled
    /\ pc' = "stopped"
    /\ UNCHANGED <<fetch, trPc, trBody, eventVars, lifeVars, procVars, sinkVars, passVars,
                   cycleVars, ret, failedCall, faults, httpStatus>>

\* Both awaits of lifespan have returned.
LifespanStopped ==
    /\ lsPc = "cancelling"
    /\ evPc = "done"
    /\ SyncTaskDone
    /\ lsPc' = "stopped"
    /\ UNCHANGED <<fetch, trPc, trBody, eventVars, procVars, sinkVars, passVars, cycleVars, ret,
                   failedCall, faults, httpStatus, pc, env, signalled,
                   disconnects, waited, sigPc, sdRet>>

(***************************************************************************)
(* The specification.                                                      *)
(***************************************************************************)
Next ==
    \/ LifespanStartup
    \/ SyncDataStart
    \/ Collect
    \/ SkipCycle
    \/ TriggerSync
    \/ TriggerDuringPost
    \/ TriggerPostDone
    \/ UpdateClusterStatus
    \/ SyncNodes
    \/ SyncNamespaces
    \/ SyncPods
    \/ SyncDeployments
    \/ SyncStatefulsets
    \/ SyncDaemonsets
    \/ SyncServices
    \/ SyncIngresses
    \/ SyncJobs
    \/ SyncSnapshot
    \/ RunAgentStart
    \/ RunAgentCollect
    \/ RunAgentPost
    \/ Sleep
    \/ AgentWait
    \/ RunAgentStop
    \/ WatchEventsStart
    \/ WatchEvent
    \/ StreamEnds
    \/ Signal
    \/ LifespanShutdown
    \/ LifespanClosed
    \/ SyncCancelled
    \/ SyncDataExit
    \/ LifespanStopped

Spec == Init /\ [][Next]_vars

\* The steps the program takes by itself.  A notification, the end of the
\* stream, a request to /sync/trigger and a signal come from outside and may
\* never come.
ProgramStep ==
    \/ LifespanStartup \/ SyncDataStart \/ Collect \/ SkipCycle
    \/ UpdateClusterStatus \/ SyncNodes \/ SyncNamespaces \/ SyncPods
    \/ SyncDeployments \/ SyncStatefulsets \/ SyncDaemonsets \/ SyncServices
    \/ SyncIngresses \/ SyncJobs \/ SyncSnapshot \/ RunAgentStart
    \/ RunAgentCollect \/ RunAgentPost \/ Sleep \/ AgentWait \/ RunAgentStop
    \/ WatchEventsStart \/ LifespanShutdown \/ LifespanClosed
    \/ SyncCancelled \/ SyncDataExit \/ LifespanStopped \/ TriggerPostDone

\* Behaviours in which events and signals are exercised, the event loop
\* running every step that is ready.
LiveInit == Init /\ env = "lifecycle"

LiveSpec == LiveInit /\ [][Next]_vars /\ WF_vars(ProgramStep)

(***************************************************************************)
(* fetch_config_from_install_token (cli.py): the configuration behind an   *)
(* install token.  main calls it before run_agent when an install token    *)
(* is given; it is checked by itself, over every pair of answers the two   *)
(* candidate URLs may give.                                                *)
(***************************************************************************)
\* possible_urls: the hosted application, then a local one.
PossibleUrls(token) ==
    <<[base |-> "https://app.kubervise.io", path |-> "/api/install", token |-> token],
      [base |-> "http://localhost:3000", path |-> "/api/install", token |-> token]>>

\* url.rsplit('/api/install', 1)[0]
ApiUrl(url) == url.base

\* data.get('agent_token', install_token)
AgentToken(data, token) ==
    IF "agent_token" \in DOMAIN data THEN data["agent_token"] ELSE token

\* The install tokens tried.
InstallTokens == {"t1"}

\* The JSON objects a 200 answer may carry: with or without cluster_id, with
\* or without agent_token.
JsonObjects ==
    {[k \in K |-> IF k = "cluster_id" THEN "c1" ELSE "a1"] :
        K \in SUBSET {"cluster_id", "agent_token"}}

\* What client.get(url) may end in: a status with a body that is a JSON
\* object or does not parse, or (status -2) an httpx.RequestError.
FetchResponses ==
    {[status |-> 200, json |-> TRUE, data |-> d] : d \in JsonObjects}
    \cup {[status |-> st, json |-> FALSE, data |-> EmptyMap] :
              st \in {200, 410, 404, 500, -2}}

\* The call with install token t, the two URLs answering rs.
FetchStarts ==
    {[token |-> t, responses |-> rs, idx |-> 1, kind |-> "pending",
      cfg |-> NoFetch.cfg, contacted |-> <<>>] :
        t \in InstallTokens,
        rs \in [1..Len(PossibleUrls("")) -> FetchResponses]}

FetchInit ==
    /\ ProcessInit
    /\ mode = "cli"
    /\ env = "inventory"
    /\ fetch \in FetchStarts

\* The loop is at a URL it has not requested yet.
Fetching == fetch.kind = "pending" /\ fetch.idx \in 1..Len(fetch.responses)

\* The answer of the URL the loop is at.
FetchResponse == fetch.responses[fetch.idx]

\* await client.get(url): the URL has been contacted.
Contacted(f) ==
    [f EXCEPT !.contacted = Append(@, PossibleUrls(f.token)[f.idx])]

\* Status 200 and 'cluster_id' in data: return the AgentConfig.
FetchReturnConfig ==
    /\ Fetching
    /\ FetchResponse.status = 200
    /\ FetchResponse.json
    /\ "cluster_id" \in DOMAIN FetchResponse.data
    /\ fetch' = [Contacted(fetch) EXCEPT
                   !.kind = "config",
                   !.cfg = [api_url |-> ApiUrl(PossibleUrls(fetch.token)[fetch.idx]),
                            agent_token |-> AgentToken(FetchResponse.data, fetch.token),
                            cluster_id |-> FetchResponse.data["cluster_id"]]]
    /\ UNCHANGED processVars

\* Status 200 and a body that is not JSON: response.json() raises a
\* ValueError, which "except httpx.RequestError" does not catch; it leaves
\* the function.
FetchJsonRaises ==
    /\ Fetching
    /\ FetchResponse.status = 200
    /\ ~FetchResponse.json
    /\ fetch' = [Contacted(fetch) EXCEPT !.kind = "raised"]
    /\ UNCHANGED processVars

\* Status 410: the install token has expired, return None.
FetchExpired ==
    /\ Fetching
    /\ FetchResponse.status = 410
    /\ fetch' = [Contacted(fetch) EXCEPT !.kind = "none"]
    /\ UNCHANGED processVars

\* Status 404 (continue), a request error (except ... continue), another
\* status, or 200 with an object without cluster_id (no branch returns):
\* the loop goes to the next URL.
FetchNextUrl ==
    /\ Fetching
    /\ \/ FetchResponse.status \notin {200, 410}
       \/ /\ FetchResponse.status = 200
          /\ FetchResponse.json
          /\ "cluster_id" \notin DOMAIN FetchResponse.data
    /\ fetch' = [Contacted(fetch) EXCEPT !.idx = @ + 1]
    /\ UNCHANGED processVars

\* The loop has run out of URLs: log and return None.
FetchGiveUp ==
    /\ fetch.kind = "pending"
    /\ fetch.idx > Len(fetch.responses)
    /\ fetch' = [fetch EXCEPT !.kind = "none"]
    /\ UNCHANGED processVars

FetchNext ==
    \/ FetchReturnConfig
    \/ FetchJsonRaises
    \/ FetchExpired
    \/ FetchNextUrl
    \/ FetchGiveUp

FetchSpec == FetchInit /\ [][FetchNext]_vars


(***************************************************************************)
(* Properties.                                                             *)
(***************************************************************************)
NsIds == {NsId(n) : n \in NsNames}

\* A DirectStore cycle of sync_data that ran (source connected) and has
\* reached its sleep.
CycleDone == mode = "supabase" /\ pc \in {"sleep", "loop"} /\ ran /\ ~manual

\* No sink call of the cycle so far has failed.
NoSinkFault ==
    /\ sinkUp
    /\ \A s \in RetSteps : failedCall[s] = 0
    /\ httpStatus \in {0, 200}

\* The keys of the collected pods: (namespace id, name) for every collected
\* pod whose namespace has an id in the mapping of this cycle.
CollectedPodKeys ==
    {<<namespace_ids[p[1]], p[2]>> :
        p \in {q \in Range(collected["pods"]) : q[1] \in DOMAIN namespace_ids}}

C2_NoDeleteOnFailedListing ==
    (mode = "supabase" /\ "pods" \in listFailed /\ sinkUp
        /\ ret["pods"] # "none") =>
        /\ dels = NoDels
        /\ prev.tbl["pods"] \subseteq tbl["pods"]

\* C3: in a sync_pods pass without errors, every key read from the sink at
\* the start of the pass and absent from the current keys receives exactly
\* one delete and is gone, and no current key receives a delete.
C3_DeletionInvariant ==
    (mode = "supabase" /\ ret["pods"] = "true") =>
        /\ existing_pods = prev.tbl["pods"]
        /\ current_pods = CollectedPodKeys
        /\ \A k \in Keys(existing_pods) \ current_pods :
              k \in DOMAIN dels /\ dels[k] = 1 /\ k \notin Keys(tbl["pods"])
        /\ \A k \in current_pods : k \notin DOMAIN dels
        /\ DOMAIN dels \subseteq Keys(existing_pods)

C3_Witness ==
    /\ mode = "supabase"
    /\ ret["pods"] = "true"
    /\ current_pods # {}
    /\ Cardinality(DOMAIN dels) = 2

\* C4: a second clean cycle over the collection of the clean cycle before it
\* issues no delete and leaves the rows of every kind as they were.
C4_Idempotence ==
    (CycleDone /\ prev.ran /\ prev.clean /\ CycleClean
        /\ collected = prev.collected) =>
        /\ dels = NoDels
        /\ \A k \in Kinds : tbl[k] = prev.tbl[k]

C4_Witness ==
    /\ CycleDone /\ prev.ran /\ prev.clean /\ CycleClean
    /\ collected = prev.collected
    /\ Cardinality(tbl["pods"]) = 3
    /\ tbl["jobs"] # {}

\* The collected records of kind k whose namespace has no id in the mapping.
Unresolved(k) == {r \in Range(collected[k]) : r[1] \notin DOMAIN namespace_ids}

\* C5: no row of a namespaced kind has a null or unknown namespace id; a
\* pass that meets unresolved records still returns True, upserts every
\* resolved record of the kind and adds no row for an unresolved one.
C5_DependencyGating ==
    \A k \in NamespacedKinds :
        /\ \A r \in tbl[k] : r.namespace_id \in NsIds
        /\ (mode = "supabase" /\ ret[k] # "none" /\ failedCall[k] = 0)
              => ret[k] = "true"
        /\ (mode = "supabase" /\ ret[k] = "true") =>
              /\ \A r \in Range(collected[k]) \ Unresolved(k) :
                    <<namespace_ids[r[1]], r[2]>> \in Keys(tbl[k])
              /\ \A r \in Unresolved(k) :
                    <<NsId(r[1]), r[2]>> \in Keys(tbl[k])
                        => <<NsId(r[1]), r[2]>> \in Keys(prev.tbl[k])

C5_Witness ==
    /\ CycleDone
    /\ \A k \in NamespacedKinds :
          /\ ret[k] = "true"
          /\ Unresolved(k) # {}
          /\ Range(collected[k]) \ Unresolved(k) # {}

\* The call of kind k's pass that raised was the upsert of a record.
UpsertFailed(k) ==
    IF k = "pods"
    THEN failedCall[k] >= 2 /\ failedCall[k] <= 1 + Cardinality(CollectedPodKeys)
    ELSE failedCall[k] >= 1

\* The resolved collected records of kind k that the table does not hold.
Missing(k) ==
    IF k = "nodes" THEN Range(collected[k]) \ tbl[k]
    ELSE {r \in Range(collected[k]) \ Unresolved(k) :
            <<namespace_ids[r[1]], r[2]>> \notin Keys(tbl[k])}

\* C6: when the upsert of one record fails inside a kind's pass, every
\* other record of the kind is still upserted in that pass.
C6_PerRecordIsolation ==
    \A k \in {"nodes"} \cup NamespacedKinds :
        (mode = "supabase" /\ sinkUp /\ ret[k] = "false" /\ UpsertFailed(k))
            => Cardinality(Missing(k)) <= 1

\* C7: a cycle reaches its end with every sync call made, whichever of
\* them returned False.
C7_PerKindIsolation ==
    CycleDone => \A s \in Steps : ret[s] # "none"

C7_Witness ==
    /\ CycleDone
    /\ sinkUp
    /\ ret["nodes"] = "false"
    /\ \A s \in Steps \ {"nodes"} : ret[s] = "true"


\* The kinds a cycle of each variant applies to its sink.
AppliedKinds ==
    IF mode = "supabase" THEN Kinds
    ELSE IF mode = "api" THEN SnapshotKinds ELSE CliKinds

\* A cycle of any variant that collected and has made its sink calls.
AnyCycleDone == pc \in {"sleep", "loop"} /\ ran /\ ~manual

\* The collected list of kind k has reached the sink: every record is in the
\* kind's table (under the id of its namespace), or the list is in the
\* snapshot the API accepted.
Applied(k) ==
    IF mode = "supabase"
    THEN IF k \in NamespacedKinds
         THEN \A r \in Range(collected[k]) :
                 <<NsId(r[1]), r[2]>> \in Keys(tbl[k])
         ELSE Range(collected[k]) \subseteq tbl[k]
    ELSE httpStatus = 200 /\ k \in DOMAIN snapshot /\ snapshot[k] = collected[k]

\* As Applied, but a namespaced record whose namespace has no id in the
\* mapping of the cycle is left out.
AppliedWhereResolved(k) ==
    IF mode = "supabase" /\ k \in NamespacedKinds
    THEN \A r \in Range(collected[k]) \ Unresolved(k) :
            <<NsId(r[1]), r[2]>> \in Keys(tbl[k])
    ELSE Applied(k)

C9_NoPartialWipe ==
    (CycleDone /\ ~sinkUp) =>
        /\ tbl = prev.tbl
        /\ clusterStatus = prev.clusterStatus
        /\ statusRows = prev.statusRows

C9_Witness ==
    /\ CycleDone /\ ~sinkUp
    /\ listFailed = {}
    /\ Cardinality(tbl["pods"]) = 2
    /\ collected["pods"] = <<>>
    /\ collected["namespaces"] = <<"n2">>
    /\ \A s \in {"status", "nodes", "namespaces", "pods"} : ret[s] = "false"

\* C10: whatever the cycles before it did, a cycle in which every source
\* and sink call succeeds leaves exactly the pods the source holds, one row
\* for each.
C10_SelfHealing ==
    (CycleDone /\ CycleClean) =>
        /\ Keys(tbl["pods"]) = {<<NsId(p[1]), p[2]>> : p \in source.pods}
        /\ Cardinality(tbl["pods"]) = Cardinality(source.pods)

C10_Witness ==
    /\ CycleDone /\ CycleClean
    /\ prev.ran /\ ~prev.clean
    /\ prev.tbl["pods"] # {}
    /\ Keys(prev.tbl["pods"]) # Keys(tbl["pods"])
    /\ Keys(prev.tbl["pods"]) # {<<NsId(p[1]), p[2]>> : p \in Range(prev.collected["pods"])}
    /\ source.pods # {}

(***************************************************************************)
(* Shutdown, the event task and their interleaving.                        *)
(***************************************************************************)
Worker == mode \in {"supabase", "api"}

\* Both background tasks have stopped.
TasksStopped == evPc = "done" /\ SyncTaskDone

\* C11: the disconnected status is written, and the sink connection is
\* released, only in a state in which both background tasks have stopped.
C11_ShutdownOrdering ==
    [][(Worker /\ (disconnects' > disconnects \/ (dsConnected /\ ~dsConnected')))
          => TasksStopped]_vars

\* The sync task is inside a reconciliation cycle.
InCycle == pc \in Steps \cup {"snapshot"}

\* C12: a cycle of sync_data that is in progress when lifespan begins its
\* shutdown is not cut off, and no cycle starts after the shutdown began.
C12_CycleNotAborted ==
    [][Worker =>
          /\ (InCycle => pc' \in Steps \cup {"snapshot", "sleep"})
          /\ (lsPc # "serving" => cycles' = cycles)]_vars

\* C13: in run_agent, once running is cleared no cycle starts, a cycle in
\* progress goes on to its request, the wait is left at its next pass, the
\* HTTP client is closed only by the step that stops the agent, and the
\* agent does stop.
C13_AgentShutdown ==
    /\ [][(mode = "cli" /\ pc \notin {"boot", "exited"}) =>
             /\ (~running => cycles' = cycles)
             /\ ((pc = "post" /\ pc' # pc) => pc' = "sleep" /\ httpStatus' # 0)
             /\ ((pc = "sleep" /\ ~running) => pc' = "loop")
             /\ (pc' = "stopped" => pc = "loop" /\ ~running)
             /\ (~dsConnected' => pc' = "stopped")]_vars
    /\ ((mode = "cli" /\ signalled) ~> (pc = "stopped" /\ ~dsConnected))

\* The signal came while the request of a cycle was due; the agent made the
\* request and has stopped.
C13_Witness ==
    /\ mode = "cli"
    /\ sigPc = "cycle"
    /\ httpStatus # 0
    /\ pc = "stopped"
    /\ ~dsConnected

C15_DisconnectRecorded ==
    (Worker /\ sdRet = "true" /\ (mode = "api" => lsPc = "closing"))
        => clusterStatus = "disconnected"

\* C16: after the shutdown signal both background tasks of the worker
\* terminate, whether or not the source sends anything more.
C16_TasksTerminate ==
    (Worker /\ signalled) ~> TasksStopped

\* C17: while the event consumer waits for the next notification the sync
\* scheduler still gets to run: with source and sink connected a cycle is
\* collected (unless a shutdown signal comes first).
C17_SchedulerProgress ==
    (Worker /\ connected /\ dsConnected /\ evPc = "streaming")
        ~> (cycles >= 1 \/ signalled)

\* C18: while the sink client is connected, every notification the event
\* consumer has received has had one insert issued for it, in either
\* worker mode.
C18_EventForwarding ==
    (Worker /\ dsConnected) => inserts = received

\* C19: once watch_events has returned it stays returned with the watching
\* flag false; the loop is left through the end of the stream only, with
\* the flag cleared; and a notification whose insert failed leaves the
\* consumer in its loop.
C19_ConsumerTermination ==
    /\ [][/\ evPc = "done" => (evPc' = "done" /\ ~watching')
          /\ (evPc = "streaming" /\ evPc' # "streaming")
                => (evPc' = "done" /\ ~watching' /\ received' = received)
          /\ (evPc = "streaming" /\ inserts' > inserts /\ events' = events)
                => evPc' = "streaming"]_vars
    /\ [](evPc = "done" => ~watching)
    /\ [](evPc = "streaming" => watching)

\* The insert of the first notification failed, the second was received and
\* inserted, then the stream ended.
C19_Witness ==
    /\ evPc = "done"
    /\ ~watching
    /\ received = 2
    /\ inserts = 2
    /\ events = {2}

UpsertedBeforeFailure ==
    LET recs == collected["namespaces"]
        c == failedCall["namespaces"]
    IN {recs[i] : i \in 1..Min(Max(c - 1, 0), Len(recs))}

\* C21: sync_namespaces always returns to its caller, which goes on to
\* sync_pods; when one of its sink calls failed, the mapping it returned
\* holds exactly the namespaces upserted before the failure (none when the
\* first call failed), and the kinds synced after it in the cycle upsert
\* the records that mapping resolves.
C21_ResolverFailure ==
    /\ [][(mode = "supabase" /\ pc = "namespaces" /\ pc' # pc) =>
             (pc' = "pods" /\ ret'["namespaces"] # "none")]_vars
    /\ [][(mode = "supabase" /\ pc \in NamespacedKinds) =>
             namespace_ids' = namespace_ids]_vars
    /\ []((mode = "supabase" /\ failedCall["namespaces"] # 0) =>
            /\ DOMAIN namespace_ids = UpsertedBeforeFailure
            /\ \A n \in DOMAIN namespace_ids : namespace_ids[n] = NsId(n)
            /\ \A k \in NamespacedKinds :
                  ret[k] = "true" =>
                     \A r \in Range(collected[k]) :
                        r[1] \in UpsertedBeforeFailure
                           => <<NsId(r[1]), r[2]>> \in Keys(tbl[k]))

\* The second namespace upsert failed: the mapping holds the first
\* namespace only, and the cycle went on to upsert the pod in it and to
\* skip the pod in the other.
C21_Witness ==
    /\ CycleDone
    /\ failedCall["namespaces"] = 2
    /\ collected["namespaces"] = <<"n1", "n2">>
    /\ DOMAIN namespace_ids = {"n1"}
    /\ collected["pods"] = << <<"n1", "p1">>, <<"n2", "p1">> >>
    /\ Keys(tbl["pods"]) = {<<"u1", "p1">>}
    /\ \A k \in NamespacedKinds : ret[k] = "true"

\* C22: when no sink call of sync_namespaces failed, the mapping it returned
\* has the id of every namespace given to it and of every namespace row the
\* sink holds for the cluster, rows written by an earlier pass included.
C22_ResolverResult ==
    (mode = "supabase" /\ ret["namespaces"] = "true") =>
        /\ Range(collected["namespaces"]) \subseteq DOMAIN namespace_ids
        /\ DOMAIN namespace_ids = tbl["namespaces"]
        /\ prev.tbl["namespaces"] \subseteq DOMAIN namespace_ids
        /\ \A n \in DOMAIN namespace_ids : namespace_ids[n] = NsId(n)

\* The pass was given one namespace while the sink held the row of another,
\* written by the pass before it: the mapping has both.
C22_Witness ==
    /\ mode = "supabase"
    /\ ret["namespaces"] = "true"
    /\ collected["namespaces"] = <<"n1">>
    /\ prev.collected["namespaces"] = <<"n2">>
    /\ DOMAIN namespace_ids = {"n1", "n2"}

\* C23: in a DirectStore pass of sync_data or of trigger_sync, the sync of a
\* namespaced kind is due only after sync_namespaces has returned in that
\* pass; rows of a namespaced kind change only in the kind's own step, and a
\* row it adds carries an id of the mapping; the mapping is emptied when a
\* pass starts and written by the namespace step only.
C23_DependencyOrder ==
    /\ []((mode = "supabase" /\ pc \in NamespacedKinds)
            => ret["namespaces"] # "none")
    /\ [][mode = "supabase" =>
             \A k \in NamespacedKinds :
                tbl'[k] # tbl[k] =>
                   /\ pc = k
                   /\ ret["namespaces"] # "none"
                   /\ namespace_ids' = namespace_ids
                   /\ \A r \in tbl'[k] \ tbl[k] :
                         r.namespace_id \in
                            {namespace_ids[n] : n \in DOMAIN namespace_ids}]_vars
    /\ [][namespace_ids' # namespace_ids =>
             \/ pc = "namespaces"
             \/ cycles' = cycles + 1 /\ namespace_ids' = EmptyMap]_vars

\* A cycle of sync_data upserted jobs, then trigger_sync upserted a new pod
\* under the mapping of its own pass.
C23_Witness ==
    /\ mode = "supabase"
    /\ manual
    /\ pc = "sleep"
    /\ ret["pods"] = "true"
    /\ prev.tbl["jobs"] # {}
    /\ Keys(tbl["pods"]) \ Keys(prev.tbl["pods"]) # {}
    /\ DOMAIN namespace_ids = {"n1", "n2"}

(***************************************************************************)
(* RemoteSnapshot passes.                                                  *)
(***************************************************************************)
Remote == mode \in {"api", "cli"}

\* A RemoteSnapshot pass that collected and has reached the inter-cycle
\* sleep.
RemoteDone == Remote /\ pc \in {"sleep", "loop"} /\ ran

C25_SnapshotComplete ==
    (RemoteDone /\ httpStatus > 0) =>
        \A k \in Kinds :
            collected[k] # <<>> =>
                (k \in DOMAIN snapshot /\ snapshot[k] = collected[k])

\* C26: sync_snapshot returns True exactly when its request was answered
\* with a status from 200 to 299, and False for every other status, for a
\* timeout and for a request error.
C26_SuccessCriterion ==
    (mode = "api" /\ posts = 1 /\ ret["snapshot"] # "none") =>
        (ret["snapshot"] = "true" <=> httpStatus \in 200..299)

(***************************************************************************)
(* The manual trigger.                                                     *)
(***************************************************************************)
\* The keys of kind k in tables t.
KeysIn(t, k) == IF k \in NamespacedKinds THEN Keys(t[k]) ELSE t[k]

\* The keys of kind k a cycle of sync_data leaves when it starts from
\* tables t, finds inventory inv at the source and meets no error: the pods
\* of inv, and for every other kind the keys of t and of the records of inv.
ReconciledKeys(t, inv, k) ==
    CASE k = "pods" -> {<<NsId(p[1]), p[2]>> : p \in inv.pods}
      [] k \in {"nodes", "namespaces"} -> t[k] \cup Range(ListOf(k, inv))
      [] OTHER -> Keys(t[k]) \cup
                     {<<NsId(r[1]), r[2]>> : r \in Range(ListOf(k, inv))}

\* The body a cycle of sync_data delivers for inventory inv.
ScheduledBody(inv) ==
    [k \in SnapshotKinds \cup {"events"} |->
        IF k = "events" THEN <<>> ELSE ListOf(k, inv)]

\* A pass of either entry point that collected from a connected source,
\* met no error and has returned.
CleanPassDone == pc \in {"sleep", "loop"} /\ ran /\ connected /\ CycleClean

\* A cycle of sync_data does leave the keys and the body named above.
ScheduledReconciles ==
    (Worker /\ CleanPassDone /\ ~manual) =>
        IF mode = "supabase"
        THEN \A k \in Kinds : KeysIn(tbl, k) = ReconciledKeys(prev.tbl, source, k)
        ELSE snapshot = ScheduledBody(source)

\* C27: a pass of trigger_sync leaves the sink as a cycle of sync_data
\* would from the same sink state and the same inventory: the same keys of
\* every kind (DirectStore), the same request body (RemoteSnapshot).
C27_ManualEquivalence ==
    (Worker /\ CleanPassDone /\ manual) =>
        IF mode = "supabase"
        THEN \A k \in Kinds : KeysIn(tbl, k) = ReconciledKeys(prev.tbl, source, k)
        ELSE snapshot = ScheduledBody(source)

(***************************************************************************)
(* The periodic loop.                                                      *)
(***************************************************************************)
\* The loop of sync_data or run_agent has been left.
Terminated == pc \in {"returned", "exited", "stopped", "cancelled"}

\* The loop has been entered and not left.
LoopRunning == pc \notin {"boot", "start"} /\ ~Terminated

\* C28: once the loop runs, only a shutdown signal ends it, whichever
\* source or sink call failed; inside a pass every call is made once and
\* the pass moves on to a call not yet made, or to the sleep; a cycle of the
\* loop starts at the loop head only, which is reached from the sleep,
\* after all of run_agent's one-second sleeps while it is running.
C28_LoopSurvival ==
    /\ [][(LoopRunning /\ Terminated') => signalled]_vars
    /\ [][(pc \in Steps \cup {"snapshot", "post"} /\ pc' # pc) =>
             /\ cycles' = cycles
             /\ posts' <= 1
             /\ pc' \in Steps \cup {"sleep", "cancelled"}
             /\ pc' \in Steps => ret'[pc'] = "none"]_vars
    /\ [][(cycles' = cycles + 1 /\ ~manual') => pc = "loop"]_vars
    /\ [][(pc' = "loop" /\ pc # "loop") =>
             \/ pc \in {"boot", "start"}
             \/ /\ pc = "sleep"
                /\ (mode = "cli" /\ running) => waited = SyncInterval]_vars

\* The request of run_agent's first pass was answered 403; the agent slept
\* and is at the head of its loop, about to start the next pass.
C28_Witness ==
    /\ mode = "cli"
    /\ running
    /\ pc = "loop"
    /\ cycles = 1
    /\ httpStatus = 403
    /\ waited = 0

(***************************************************************************)
(* Kinds without deletion, and the identity of records.                    *)
(***************************************************************************)
\* C29: no step removes a key of nodes, namespaces, deployments,
\* statefulsets, daemonsets, services, ingresses or jobs from the sink: the
\* key set of each of these kinds only grows, also when a record is no
\* longer collected.
C29_NoDeletionKinds ==
    [][\A k \in Kinds \ {"pods"} : KeysIn(tbl, k) \subseteq KeysIn(tbl', k)]_vars

\* A cycle upserted the records of two namespaces; in the next, clean cycle
\* the source held only the first, and the records of the second are still
\* in the sink.
C29_Witness ==
    /\ CycleDone /\ CycleClean
    /\ prev.collected["namespaces"] = <<"n1", "n2">>
    /\ collected["namespaces"] = <<"n1">>
    /\ tbl["namespaces"] = {"n1", "n2"}
    /\ \A k \in NamespacedKinds \ {"pods"} :
          /\ collected[k] = << <<"n1", "r1">> >>
          /\ Keys(tbl[k]) = {<<"u1", "r1">>, <<"u2", "r1">>}

\* Upserts are in place: each namespaced table holds one row per key, a pod
\* row whose key is among the resolved keys of a pass is still there after
\* the pass under the id it had, and no step changes the id of a pod key it
\* leaves in the sink.
UpsertsInPlace ==
    /\ [](\A k \in NamespacedKinds :
            \A r1, r2 \in tbl[k] : Key(r1) = Key(r2) => r1 = r2)
    /\ []((mode = "supabase" /\ ret["pods"] # "none") =>
            \A q \in prev.tbl["pods"] :
                Key(q) \in CollectedPodKeys => q \in tbl["pods"])
    /\ [][\A r1 \in tbl["pods"], r2 \in tbl'["pods"] :
             Key(r1) = Key(r2) => r1.id = r2.id]_vars

\* The keys of the pods in the collection of the pass before this one and
\* in the collection of this one.
KeptPodKeys ==
    {<<NsId(p[1]), p[2]>> :
        p \in Range(prev.collected["pods"]) \cap Range(collected["pods"])}

\* C30: the sink holds one row per (namespace id, name) in every
\* namespaced kind, and the row of a pod that is in the collections of two
\* consecutive passes is in the sink after the second under the id it had
\* after the first: it is updated in place, not deleted and inserted anew.
C30_RecordIdentity ==
    /\ \A k \in NamespacedKinds :
          \A r1, r2 \in tbl[k] : Key(r1) = Key(r2) => r1 = r2
    /\ (mode = "supabase" /\ ret["pods"] # "none") =>
          \A q \in prev.tbl["pods"] :
              Key(q) \in KeptPodKeys => q \in tbl["pods"]

(***************************************************************************)
(* Release of the sink connection.                                         *)
(***************************************************************************)
\* The process has left lifespan (worker) or run_agent (CLI agent).
ProcessExited ==
    \/ Worker /\ lsPc = "stopped"
    \/ mode = "cli" /\ pc \in {"stopped", "exited"}

\* C31: when the process has exited, on whichever path, the sink client it
\* connected at startup has been released.
C31_ConnectionRelease ==
    ProcessExited => ~dsConnected

(***************************************************************************)
(* The deletes of sync_pods.                                               *)
(***************************************************************************)
\* The keys of the pods the pass was given, resolved or not.
GivenPodKeys == {<<NsId(p[1]), p[2]>> : p \in Range(collected["pods"])}

\* C32: sync_pods issues no delete for the key of a pod that is in the
\* collection it was given, whatever mapping the namespace resolver
\* returned.
C32_PresentPodNotDeleted ==
    (mode = "supabase" /\ ret["pods"] # "none") =>
        \A k \in DOMAIN dels : k \notin GivenPodKeys

(***************************************************************************)
(* Cycles in flight.                                                       *)
(***************************************************************************)
\* A cycle of sync_data has collected and not yet reached its sleep.
ScheduledInFlight == ~manual /\ pc \in Steps \cup {"snapshot"}

\* A pass of trigger_sync has collected and not yet returned.
TriggerInFlight == (manual /\ pc \in Steps \cup {"snapshot"}) \/ trPc = "post"

\* C33: a pass of trigger_sync and a cycle of sync_data are never in
\* flight at the same time, in either sink variant.
C33_SingleCycleInFlight ==
    Worker => ~(ScheduledInFlight /\ TriggerInFlight)

(***************************************************************************)
(* Deletes of sync_pods after a failure.                                   *)
(***************************************************************************)
\* sync_pods has returned in the pass in hand (DirectStore).
PodsPassDone == mode \in {"supabase"} /\ ret["pods"] # "none" /\ dsConnected

\* The read of the existing keys or one of the upserts of the pass raised.
ReadOrUpsertFailed ==
    failedCall["pods"] \in 1..(1 + Cardinality(CollectedPodKeys))

\* The rows the pass found in the sink whose key it did not collect.
DuePodKeys == Keys(prev.tbl["pods"]) \ CollectedPodKeys

\* C34 (as amended): when the read of the existing keys or an upsert of
\* sync_pods fails, the pass issues no delete; a delete is issued only
\* after every collected pod with a resolved namespace has been upserted.
C34_NoDeleteAfterFailure ==
    PodsPassDone =>
        /\ ReadOrUpsertFailed => dels = NoDels
        /\ dels # NoDels =>
              /\ current_pods = CollectedPodKeys
              /\ \A r \in prev.tbl["pods"] :
                    Key(r) \in CollectedPodKeys => r \in tbl["pods"]

\* An upsert failed in a pass that found rows to delete, and none was
\* deleted.
C34_Witness ==
    /\ PodsPassDone
    /\ failedCall["pods"] \in 2..(1 + Cardinality(CollectedPodKeys))
    /\ DuePodKeys # {}
    /\ dels = NoDels
    /\ Keys(prev.tbl["pods"]) \subseteq Keys(tbl["pods"])

\* C34 as stated: a delete is issued only after every collected pod has
\* been upserted.
C34_AsStated ==
    PodsPassDone =>
        /\ ReadOrUpsertFailed => dels = NoDels
        /\ dels # NoDels =>
              \A p \in Range(collected["pods"]) :
                 /\ p[1] \in DOMAIN namespace_ids
                 /\ <<namespace_ids[p[1]], p[2]>> \in current_pods

(***************************************************************************)
(* A tick with the source not connected.                                   *)
(***************************************************************************)
\* sync_data is at the top of its loop with the source not connected, and
\* takes its step.
SkipTick == Worker /\ pc = "loop" /\ syncing /\ ~connected /\ pc' # pc

\* The pass in hand is a cycle of sync_data that was skipped.
SkippedPass == Worker /\ cycles > 0 /\ ~ran /\ ~manual

\* C35: a cycle of sync_data that finds the source not connected issues no
\* sink write (no status update, no upsert, no delete, no snapshot request)
\* and goes to the sleep before the next tick.
C35_SkippedCycle ==
    /\ [][SkipTick => /\ pc' = "sleep"
                      /\ UNCHANGED sinkVars
                      /\ SkippedPass']_vars
    /\ [](SkippedPass => /\ posts = 0
                         /\ dels = NoDels
                         /\ ret = NoRet
                         /\ pc \notin Steps \cup {"snapshot"})

\* The second tick in a row was skipped.
C35_Witness ==
    /\ SkippedPass
    /\ ~connected
    /\ cycles = 2
    /\ ~prev.ran
    /\ pc = "sleep"

(***************************************************************************)
(* The scheduler task started with the sink client not connected.          *)
(***************************************************************************)
\* sync_data takes its first step with the sink client not connected.
StartsUnconnected == Worker /\ pc = "start" /\ ~dsConnected /\ pc' # pc

\* sync_data has returned from its entry test.
ReturnedAtEntry == Worker /\ pc = "returned"

\* C36: when the sink client is not connected as sync_data starts,
\* sync_data returns at once; from then on the syncing flag is false, no
\* cycle runs, the sink client stays unconnected, the task is not started
\* again and the sink variant stays the same.
C36_SchedulerNeverStarts ==
    /\ [][StartsUnconnected => ReturnedAtEntry']_vars
    /\ [](ReturnedAtEntry => /\ ~syncing
                             /\ ~dsConnected
                             /\ cycles = 0
                             /\ ~ran
                             /\ posts = 0
                             /\ ret = NoRet)
    /\ [][ReturnedAtEntry => ReturnedAtEntry' /\ UNCHANGED <<mode, sinkVars>>]_vars

\* The worker has served and shut down without its scheduler ever running.
C36_Witness ==
    /\ ReturnedAtEntry
    /\ lsPc = "stopped"
    /\ cycles = 0

(***************************************************************************)
(* The watching flag.                                                      *)
(***************************************************************************)
\* C37: the watching flag is true exactly while the loop of watch_events
\* runs: it is false before the task has started and whenever watch_events
\* has returned.
C37_WatchingFlag ==
    Worker => (watching <=> evPc = "streaming")

\* watch_events has consumed a notification and returned, and the worker
\* goes on serving with its scheduler in the loop.
C37_Witness ==
    /\ Worker
    /\ connected
    /\ evPc = "done"
    /\ received > 0
    /\ ~watching
    /\ syncing
    /\ lsPc = "serving"

(***************************************************************************)
(* Requests and the closing of the RemoteStore client.                     *)
(***************************************************************************)
\* The client exists and close() has not been called on it.
ClientOpen == mode = "api" /\ dsConnected /\ lsPc = "serving"

\* close() has returned (or found no client to close).
CloseCompleted == mode = "api" /\ lsPc \in {"cancelling", "stopped"}

\* A step in which sync_snapshot passes its guard and sends its request.
RequestSent ==
    /\ mode = "api"
    /\ \/ pc # "snapshot" /\ pc' = "snapshot"
       \/ trPc = "none" /\ trPc' = "post"

\* C38: once close() has completed the sink client is unconnected and no
\* request is made or answered any more; every request is sent while the
\* client is open, none while lifespan is closing it or after.
C38_NoRequestOnClosedClient ==
    /\ [](CloseCompleted => ~dsConnected)
    /\ [][RequestSent => ClientOpen]_vars
    /\ [][CloseCompleted => /\ CloseCompleted'
                            /\ ~RequestSent
                            /\ UNCHANGED <<posts, snapshot, trBody>>]_vars

\* The worker was shut down while the request of a cycle was in flight:
\* the client was closed and the cycle never got its answer.
C38_Witness ==
    /\ mode = "api"
    /\ lsPc = "stopped"
    /\ ~dsConnected
    /\ ran
    /\ ~manual
    /\ pc = "cancelled"
    /\ ret["snapshot"] = "none"
    /\ posts = 0

(***************************************************************************)
(* The configuration behind an install token.                              *)
(***************************************************************************)
\* URL i answers 200 with a cluster_id.
AnswersConfig(i) ==
    LET r == fetch.responses[i]
    IN r.status = 200 /\ r.json /\ "cluster_id" \in DOMAIN r.data

\* The first URL that answers 200 with a cluster_id or 410; 0 if none does.
FirstDecisive ==
    LET D == {i \in 1..Len(fetch.responses) :
                 AnswersConfig(i) \/ fetch.responses[i].status = 410}
    IN IF D = {} THEN 0 ELSE CHOOSE i \in D : \A j \in D : i <= j

\* The call has ended.
FetchEnded == fetch.kind \in {"config", "none", "raised"}

\* Every 200 answer carries a JSON object.
JsonAnswers ==
    \A i \in 1..Len(fetch.responses) :
       fetch.responses[i].status = 200 => fetch.responses[i].json

\* C39: the URLs are contacted in order; the call returns the configuration
\* of the first URL that answers 200 with a cluster_id (the agent token
\* being the install token when the answer has none), returns None at a 410
\* without contacting the URLs after it, moves on to the next URL after any
\* other answer, and returns None when no URL yields a configuration.
C39_FetchConfig ==
    LET urls == PossibleUrls(fetch.token)
        d == FirstDecisive
    IN /\ fetch.contacted = SubSeq(urls, 1, Len(fetch.contacted))
       /\ FetchEnded =>
             IF d = 0
             THEN fetch.kind = "none" /\ fetch.contacted = urls
             ELSE /\ fetch.contacted = SubSeq(urls, 1, d)
                  /\ IF AnswersConfig(d)
                     THEN /\ fetch.kind = "config"
                          /\ fetch.cfg.api_url = urls[d].base
                          /\ fetch.cfg.cluster_id = fetch.responses[d].data["cluster_id"]
                          /\ fetch.cfg.agent_token =
                                IF "agent_token" \in DOMAIN fetch.responses[d].data
                                THEN fetch.responses[d].data["agent_token"]
                                ELSE fetch.token
                     ELSE fetch.kind = "none"

\* The same, for answers whose 200 bodies all parse as JSON objects.
FetchConfigOnJson == JsonAnswers => C39_FetchConfig

====
